---------------------------- MODULE Spec2Model ----------------------------
(***************************************************************************)
(* A model of the DynamicRequest backend of codeblitz-browserfs:           *)
(*   - RWMutex (src/generic/rwmutex.ts), on top of the base Mutex;         *)
(*   - the request coalescer wrap / finallyPromise;                        *)
(*   - DynamicRequest.loadEntry and the stat / open / readdir operations   *)
(*     behind the load-before-call wrapper.                                *)
(* Callbacks given to setImmediate and promise reactions are separate      *)
(* steps of the model; everything a handler does synchronously is one      *)
(* step.                                                                   *)
(***************************************************************************)
EXTENDS Integers, Sequences, FiniteSets, TLC

(***************************************************************************)
(* Bounds of the model.                                                    *)
(***************************************************************************)
NumParties == 3
NumCallers == 3
NumOps == 2
MaxCalls == 5

(* const rwmutexMaxReaders = 1 << 30 *)
rwmutexMaxReaders == 1073741824

Parties == 1 .. NumParties

VARIABLES
  \* ---- RWMutex / Mutex --------------------------------------------------
  readerWaiters,   \* RWMutex._readerWaiters: queued reader callbacks
  writerWaiters,   \* RWMutex._writerWaiters: the writer waiting for readers
  readerCount,     \* RWMutex._readerCount
  readerWait,      \* RWMutex._readerWait
  locked,          \* Mutex._locked
  waiters,         \* Mutex._waiters: queued lock() closures
  immediates,      \* callbacks handed to setImmediate, in order
  pstate,          \* where each party stands with the lock
  misuse,          \* the one release made without a matching acquisition
  claimActive,     \* readers granted and unreleased when the writer claimed
  claimCounted,    \* readers the counter held when the writer claimed
  releasedSince,   \* readers that called rUnlock since the claim
  \* ---- wrap (request coalescer) -----------------------------------------
  calls,           \* every provider invocation made through a wrapper
  cache,           \* the Map of each wrapper: key -> the call it holds
  wcaller,         \* the callers of the wrapped function
  \* ---- DynamicRequest ---------------------------------------------------
  inodes,          \* FileIndex: path -> "none" | "file" | "dir"
  entriesLoaded,   \* DirInode.entriesLoaded of each directory
  fsize,           \* Stats.size of each file inode (-1: unknown)
  fileData,        \* Stats.fileData of each file inode
  statConfigured,  \* whether opts.stat was given to the constructor
  ops,             \* the public operations in progress
  hist             \* what the completed stats and opens of a file returned

rwVars == << readerWaiters, writerWaiters, readerCount, readerWait, locked,
             waiters, immediates, pstate, misuse, claimActive, claimCounted,
             releasedSince >>

lockFields == << readerWaiters, writerWaiters, readerCount, readerWait,
                 locked, waiters, immediates >>

wrapVars == << calls, cache >>

fsVars == << inodes, entriesLoaded, fsize, fileData, statConfigured, ops,
            hist >>

vars == << rwVars, wrapVars, wcaller, fsVars >>

notRW == << wrapVars, wcaller, fsVars >>
notWrap == << rwVars, fsVars >>
notFS == << rwVars, wcaller >>

NoMisuse == [op |-> "none", by |-> 0, threw |-> FALSE, changed |-> FALSE,
             readersOut |-> 0, writersOut |-> 0]

InitRW ==
  /\ readerWaiters = << >>
  /\ writerWaiters = << >>
  /\ readerCount = 0
  /\ readerWait = 0
  /\ locked = FALSE
  /\ waiters = << >>
  /\ immediates = << >>
  /\ pstate = [p \in Parties |-> "idle"]
  /\ misuse = NoMisuse
  /\ claimActive = {}
  /\ claimCounted = {}
  /\ releasedSince = {}

(***************************************************************************)
(* Party positions:                                                        *)
(*   idle     no acquisition outstanding                                   *)
(*   rwait    rLock called, callback in _readerWaiters                     *)
(*   rwoken   callback handed to setImmediate by unlock                    *)
(*   rheld    read callback has run, rUnlock not yet called                *)
(*   wmutex   lock called, closure queued in the base mutex                *)
(*   wmwoken  closure handed to setImmediate by the base unlock            *)
(*   wclaimed bias subtracted, callback in _writerWaiters                  *)
(*   wwoken   callback handed to setImmediate by the last rUnlock          *)
(*   wheld    write callback has run, unlock not yet called                *)
(***************************************************************************)
ReaderOutstanding == {p \in Parties : pstate[p] \in {"rwait", "rwoken", "rheld"}}
WriterClaimed == {p \in Parties : pstate[p] \in {"wclaimed", "wwoken", "wheld"}}
ActiveReaders == {p \in Parties : pstate[p] = "rheld"}
ActiveWriters == {p \in Parties : pstate[p] = "wheld"}


(***************************************************************************)
(* Mutex (base class): lock(cb) and unlock().  A free mutex runs the       *)
(* closure at once; a held one queues it; unlock hands the mutex to the    *)
(* next queued closure on a later tick, or frees it.                       *)
(***************************************************************************)
mutexLockQueues == locked
mutexUnlockThrows == ~locked
mutexHasWaiter == waiters # << >>

(* Variant: the writer proceeds without waiting for the readers. *)
lockInnerNoWait(p) ==
  /\ readerWait' = readerWait + readerCount
  /\ readerCount' = readerCount - rwmutexMaxReaders
  /\ UNCHANGED writerWaiters
  /\ pstate' = [pstate EXCEPT ![p] = "wheld"]
  /\ claimActive' = ActiveReaders
  /\ claimCounted' = {q \in Parties : pstate[q] \in {"rheld", "rwoken"}}
  /\ releasedSince' = {}

(* The closure RWMutex.lock passes to super.lock: the writer records the   *)
(* readers it has to wait for and subtracts the bias.                      *)
lockInner(p) ==
  /\ readerWait' = readerWait + readerCount
  /\ readerCount' = readerCount - rwmutexMaxReaders
  /\ IF readerWait + readerCount # 0
     THEN /\ writerWaiters' = Append(writerWaiters, p)
          /\ pstate' = [pstate EXCEPT ![p] = "wclaimed"]
     ELSE /\ UNCHANGED writerWaiters
          /\ pstate' = [pstate EXCEPT ![p] = "wheld"]
  /\ claimActive' = ActiveReaders
  /\ claimCounted' = {q \in Parties : pstate[q] \in {"rheld", "rwoken"}}
  /\ releasedSince' = {}

(* Variant of rLock: the callback runs whatever the counter says. *)
rLockNoQueue(p) ==
  /\ misuse.op = "none"
  /\ pstate[p] = "idle"
  /\ readerCount' = readerCount + 1
  /\ pstate' = [pstate EXCEPT ![p] = "rheld"]
  /\ UNCHANGED << readerWaiters, writerWaiters, readerWait, locked, waiters,
                  immediates, misuse, claimActive, claimCounted,
                  releasedSince >>
  /\ UNCHANGED notRW

(* rLock(cb) *)
rLock(p) ==
  /\ misuse.op = "none"
  /\ pstate[p] = "idle"
  /\ readerCount' = readerCount + 1
  /\ IF readerCount + 1 < 0
     THEN /\ readerWaiters' = Append(readerWaiters, p)
          /\ pstate' = [pstate EXCEPT ![p] = "rwait"]
     ELSE /\ UNCHANGED readerWaiters
          /\ pstate' = [pstate EXCEPT ![p] = "rheld"]
  /\ UNCHANGED << writerWaiters, readerWait, locked, waiters, immediates,
                  misuse, claimActive, claimCounted, releasedSince >>
  /\ UNCHANGED notRW

(* Variant of the test of rUnlock: only the counter at 0 is refused. *)
rUnlockThrowsZeroOnly == readerCount = 0

(* rUnlock(): what the call does to the lock, whoever makes it. *)
rUnlockThrows == readerCount = 0 \/ readerCount = -rwmutexMaxReaders

rUnlockCode ==
  IF rUnlockThrows
  THEN UNCHANGED lockFields
  ELSE /\ readerCount' = readerCount - 1
       /\ IF readerCount - 1 < 0
          THEN /\ readerWait' = readerWait - 1
               /\ IF readerWait - 1 = 0 /\ writerWaiters # << >>
                  THEN /\ writerWaiters' = Tail(writerWaiters)
                       /\ immediates' = Append(immediates,
                              [fn |-> "wcb", p |-> Head(writerWaiters)])
                  ELSE UNCHANGED << writerWaiters, immediates >>
          ELSE UNCHANGED << readerWait, writerWaiters, immediates >>
       /\ UNCHANGED << readerWaiters, locked, waiters >>

(* A reader that holds the lock releases it. *)
rUnlock(p) ==
  /\ misuse.op = "none"
  /\ pstate[p] = "rheld"
  /\ rUnlockCode
  /\ pstate' = [q \in Parties |->
        IF q = p /\ ~rUnlockThrows THEN "idle"
        ELSE IF pstate[q] = "wclaimed" /\ writerWaiters' # writerWaiters
             THEN "wwoken" ELSE pstate[q]]
  /\ releasedSince' = IF rUnlockThrows THEN releasedSince
                      ELSE releasedSince \cup {p}
  /\ UNCHANGED << misuse, claimActive, claimCounted >>
  /\ UNCHANGED notRW

(* lock(cb) *)
lock(p) ==
  /\ misuse.op = "none"
  /\ pstate[p] = "idle"
  /\ IF mutexLockQueues
     THEN /\ waiters' = Append(waiters, p)
          /\ pstate' = [pstate EXCEPT ![p] = "wmutex"]
          /\ UNCHANGED << readerWaiters, writerWaiters, readerCount,
                          readerWait, locked, immediates, claimActive,
                          claimCounted, releasedSince >>
     ELSE /\ locked' = TRUE
          /\ lockInner(p)
          /\ UNCHANGED << readerWaiters, waiters, immediates >>
  /\ UNCHANGED misuse
  /\ UNCHANGED notRW

(* unlock(): what the call does to the lock, whoever makes it. *)
unlockThrows == readerCount >= 0

(* Variant: unlock wakes no reader. *)
WakeNoReaders == << >>

(* The callbacks of the queued readers, as unlock hands them to            *)
(* setImmediate.                                                           *)
WakeReaders == [i \in 1 .. Len(readerWaiters) |->
                  [fn |-> "rcb", p |-> readerWaiters[i]]]

unlockCode ==
  IF unlockThrows
  THEN UNCHANGED lockFields
  ELSE /\ readerCount' = readerCount + rwmutexMaxReaders
       /\ readerWaiters' = << >>
       /\ IF mutexUnlockThrows
          THEN /\ immediates' = immediates \o WakeReaders
               /\ UNCHANGED << locked, waiters >>
          ELSE IF mutexHasWaiter
               THEN /\ immediates' = (immediates \o WakeReaders) \o
                          << [fn |-> "inner", p |-> Head(waiters)] >>
                    /\ waiters' = Tail(waiters)
                    /\ UNCHANGED locked
               ELSE /\ immediates' = immediates \o WakeReaders
                    /\ locked' = FALSE
                    /\ UNCHANGED waiters
       /\ UNCHANGED << writerWaiters, readerWait >>

(* A writer that holds the lock releases it. *)
unlock(p) ==
  /\ misuse.op = "none"
  /\ pstate[p] = "wheld"
  /\ unlockCode
  /\ pstate' = [q \in Parties |->
        IF unlockThrows THEN pstate[q]
        ELSE IF q = p THEN "idle"
        ELSE IF pstate[q] = "rwait" /\ readerWaiters' = << >> THEN "rwoken"
        ELSE IF pstate[q] = "wmutex" /\ waiters # << >> /\ q = Head(waiters)
             THEN "wmwoken"
        ELSE pstate[q]]
  /\ IF unlockThrows
     THEN UNCHANGED << claimActive, claimCounted, releasedSince >>
     ELSE /\ claimActive' = {}
          /\ claimCounted' = {}
          /\ releasedSince' = {}
  /\ UNCHANGED misuse
  /\ UNCHANGED notRW

(* The callbacks handed to setImmediate run in the order they were given.  *)
RunReaderCb ==
  /\ misuse.op = "none"
  /\ immediates # << >>
  /\ Head(immediates).fn = "rcb"
  /\ immediates' = Tail(immediates)
  /\ pstate' = [pstate EXCEPT ![Head(immediates).p] = "rheld"]
  /\ UNCHANGED << readerWaiters, writerWaiters, readerCount, readerWait,
                  locked, waiters, misuse, claimActive, claimCounted,
                  releasedSince >>
  /\ UNCHANGED notRW

RunWriterCb ==
  /\ misuse.op = "none"
  /\ immediates # << >>
  /\ Head(immediates).fn = "wcb"
  /\ immediates' = Tail(immediates)
  /\ pstate' = [pstate EXCEPT ![Head(immediates).p] = "wheld"]
  /\ UNCHANGED << readerWaiters, writerWaiters, readerCount, readerWait,
                  locked, waiters, misuse, claimActive, claimCounted,
                  releasedSince >>
  /\ UNCHANGED notRW

RunLockInner ==
  /\ misuse.op = "none"
  /\ immediates # << >>
  /\ Head(immediates).fn = "inner"
  /\ immediates' = Tail(immediates)
  /\ lockInner(Head(immediates).p)
  /\ UNCHANGED << readerWaiters, locked, waiters, misuse >>
  /\ UNCHANGED notRW

(* A release by a party that holds no acquisition of that role. *)
BadRUnlock(p) ==
  /\ misuse.op = "none"
  /\ pstate[p] # "rheld"
  /\ rUnlockCode
  /\ misuse' = [op |-> "rUnlock", by |-> p, threw |-> rUnlockThrows,
                changed |-> (lockFields' # lockFields),
                readersOut |-> Cardinality(ReaderOutstanding),
                writersOut |-> Cardinality(WriterClaimed)]
  /\ UNCHANGED << pstate, claimActive, claimCounted, releasedSince >>
  /\ UNCHANGED notRW

BadUnlock(p) ==
  /\ misuse.op = "none"
  /\ pstate[p] # "wheld"
  /\ unlockCode
  /\ misuse' = [op |-> "unlock", by |-> p, threw |-> unlockThrows,
                changed |-> (lockFields' # lockFields),
                readersOut |-> Cardinality(ReaderOutstanding),
                writersOut |-> Cardinality(WriterClaimed)]
  /\ UNCHANGED << pstate, claimActive, claimCounted, releasedSince >>
  /\ UNCHANGED notRW

(***************************************************************************)
(* wrap(fn): the request coalescer.  Each of the three providers has its   *)
(* own wrapper and so its own Map.  A provider invocation is a record of   *)
(* calls; its number stands for the promise it returned, for the value it  *)
(* resolves with and for the message it rejects with.                      *)
(***************************************************************************)
Kinds == {"readDirectory", "readFile", "stat"}

(* The tree the providers serve, as the test's dirMap: a directory's path  *)
(* (the sequence of its segments) -> its entries.                          *)
FILE == "file"
DIRECTORY == "dir"

Tree(d) ==
  CASE d = << >> -> {[name |-> "a", type |-> FILE],
                     [name |-> "d", type |-> DIRECTORY]}
    [] d = << "d" >> -> {[name |-> "f", type |-> FILE],
                         [name |-> "e", type |-> DIRECTORY]}
    [] d = << "d", "e" >> -> {[name |-> "g", type |-> FILE]}
    [] OTHER -> {}

(* The paths the operations are called with. *)
OpPaths == { << >>, << "d" >>, << "d", "f" >>, << "d", "e" >>,
             << "d", "x" >>, << "a", "z" >>, << "x", "y" >> }

Prefixes(p) == {SubSeq(p, 1, k) : k \in 0 .. Len(p)}

TreeDirs == { << >>, << "d" >>, << "d", "e" >> }

Paths == UNION {Prefixes(p) : p \in OpPaths}
         \cup UNION {{Append(d, e.name) : e \in Tree(d)} : d \in TreeDirs}

Settled(id) == calls[id].state \in {"resolved", "rejected"}

(* Variant: a wrapper that never finds the key. *)
cacheHasNever(kind, key) == FALSE

(* cache.has(key) *)
cacheHas(kind, key) ==
  \E id \in cache : calls[id].kind = kind /\ calls[id].key = key

(* cache.get(key) *)
cacheGet(kind, key) ==
  CHOOSE id \in cache : calls[id].kind = kind /\ calls[id].key = key

(* The promise the wrapped function returns for this call. *)
wrapPromise(kind, key) ==
  IF cacheHas(kind, key) THEN cacheGet(kind, key) ELSE Len(calls) + 1

(* calls and cache after the wrapped function has been called and the      *)
(* provider, when invoked, has returned: fn.call(...), cache.set(...).     *)
wrapCalls(kind, key) ==
  IF cacheHas(kind, key) THEN calls
  ELSE Append(calls, [kind |-> kind, key |-> key, state |-> "pending",
                      value |-> << >>, finallyRan |-> FALSE])

wrapCache(kind, key) ==
  IF cacheHas(kind, key) THEN cache
  ELSE cache \cup {Len(calls) + 1}

(* The provider throws instead of returning: wrap sets nothing and the     *)
(* exception reaches the caller of the wrapped function.                   *)
wrapThrowCalls(kind, key) ==
  Append(calls, [kind |-> kind, key |-> key, state |-> "threw",
                 value |-> << >>, finallyRan |-> FALSE])

(* The latest provider invocation for a key, 0 when there is none. *)
LatestCall(kind, key) ==
  LET ids == {i \in 1 .. Len(calls) :
                 calls[i].kind = kind /\ calls[i].key = key}
  IN IF ids = {} THEN 0 ELSE CHOOSE i \in ids : \A j \in ids : j <= i

(* What a provider may resolve with: a listing is the tree's, a file's     *)
(* content and a stat's size are the provider's choice.                    *)
Contents == { << >>, << 1, 2 >> }
StatSizes == { << -1 >>, << 0 >>, << 49 >> }

ProviderValues(kind) ==
  CASE kind = "readFile" -> Contents
    [] kind = "stat" -> StatSizes
    [] OTHER -> { << >> }

(* The provider's promise settles. *)
ProviderSettle(id, ok, v) ==
  /\ id \in 1 .. Len(calls)
  /\ calls[id].state = "pending"
  /\ IF ok THEN v \in ProviderValues(calls[id].kind) ELSE v = << >>
  /\ calls' = [calls EXCEPT ![id].state =
                  IF ok THEN "resolved" ELSE "rejected",
                             ![id].value = v]
  /\ UNCHANGED << cache, wcaller >>
  /\ UNCHANGED notWrap

(* Variant: the key is deleted only after a success. *)
onFinallyResolvedOnly(id) ==
  IF calls[id].state = "resolved"
  THEN {c \in cache : ~(calls[c].kind = calls[id].kind
                         /\ calls[c].key = calls[id].key)}
  ELSE cache

(* finallyPromise's reaction to the settlement: onFinally deletes the key. *)
onFinally(id) ==
  {c \in cache : ~(calls[c].kind = calls[id].kind
                    /\ calls[c].key = calls[id].key)}

WrapFinally(id) ==
  /\ id \in 1 .. Len(calls)
  /\ Settled(id)
  /\ ~calls[id].finallyRan
  /\ cache' = onFinally(id)
  /\ calls' = [calls EXCEPT ![id].finallyRan = TRUE]
  /\ UNCHANGED wcaller
  /\ UNCHANGED notWrap

(* What the promise finallyPromise returns settles with: the value of     *)
(* the provider's promise after onFinally, or its error thrown again.      *)
finallyPromise(id) ==
  IF calls[id].state = "resolved"
  THEN << "resolved", id >>
  ELSE << "rejected", id >>

(* What the provider's own promise, as cache.get returns it, settles with. *)
cachedPromise(id) == << calls[id].state, id >>

(* The reactions of the promise a caller got run after the reaction that   *)
(* finallyPromise registered in the first call.                            *)
Observable(id) == Settled(id) /\ calls[id].finallyRan

InitWrap ==
  /\ calls = << >>
  /\ cache = {}

(***************************************************************************)
(* The wrapper on its own: callers call one wrapped provider with a key    *)
(* and later observe how the promise they got settled.                     *)
(***************************************************************************)
Callers == 1 .. NumCallers
WrapKeys == {<< >>, << "d" >>}

IdleCaller == [pc |-> "idle", key |-> << >>, promise |-> 0, first |-> FALSE,
               prev |-> 0, prevState |-> "none", prevFinally |-> FALSE,
               outcome |-> << "none", 0 >>]

InitCallers == wcaller = [c \in Callers |-> IdleCaller]

WrapCall(c, key) ==
  /\ wcaller[c].pc = "idle"
  /\ LET prev == LatestCall("readDirectory", key)
     IN wcaller' = [wcaller EXCEPT ![c] =
          [pc |-> "waiting", key |-> key,
           promise |-> wrapPromise("readDirectory", key),
           first |-> ~cacheHas("readDirectory", key),
           prev |-> prev,
           prevState |-> IF prev = 0 THEN "none" ELSE calls[prev].state,
           prevFinally |-> IF prev = 0 THEN FALSE
                           ELSE calls[prev].finallyRan,
           outcome |-> << "none", 0 >>]]
  /\ calls' = wrapCalls("readDirectory", key)
  /\ cache' = wrapCache("readDirectory", key)
  /\ UNCHANGED notWrap

WrapCallThrows(c, key) ==
  /\ wcaller[c].pc = "idle"
  /\ ~cacheHas("readDirectory", key)
  /\ LET prev == LatestCall("readDirectory", key)
     IN wcaller' = [wcaller EXCEPT ![c] =
          [pc |-> "done", key |-> key, promise |-> Len(calls) + 1,
           first |-> TRUE, prev |-> prev,
           prevState |-> IF prev = 0 THEN "none" ELSE calls[prev].state,
           prevFinally |-> IF prev = 0 THEN FALSE
                           ELSE calls[prev].finallyRan,
           outcome |-> << "threw", Len(calls) + 1 >>]]
  /\ calls' = wrapThrowCalls("readDirectory", key)
  /\ UNCHANGED cache
  /\ UNCHANGED notWrap

WrapObserve(c) ==
  /\ wcaller[c].pc = "waiting"
  /\ Observable(wcaller[c].promise)
  /\ wcaller' = [wcaller EXCEPT ![c].pc = "done",
                                ![c].outcome =
                                    IF wcaller[c].first
                                    THEN finallyPromise(wcaller[c].promise)
                                    ELSE cachedPromise(wcaller[c].promise)]
  /\ UNCHANGED wrapVars
  /\ UNCHANGED notWrap

NextWrap ==
  \/ \E c \in Callers, key \in WrapKeys : WrapCall(c, key)
  \/ \E c \in Callers, key \in WrapKeys : WrapCallThrows(c, key)
  \/ \E id \in 1 .. Len(calls), ok \in BOOLEAN :
        ProviderSettle(id, ok, << >>)
  \/ \E id \in 1 .. Len(calls) : WrapFinally(id)
  \/ \E c \in Callers : WrapObserve(c)


(***************************************************************************)
(* DynamicRequest.  The index (FileIndex, DirInode, FileInode) is kept as  *)
(* the kind of inode at each path, with the fields of the inode beside it. *)
(***************************************************************************)
Ops == 1 .. NumOps
Methods == {"stat", "open", "readdir"}
Flags == {"r", "w"}

NoResult == [kind |-> "none", code |-> "", msg |-> 0, val |-> << >>]
Err(code, msg) == [kind |-> "err", code |-> code, msg |-> msg, val |-> << >>]
Ok(v) == [kind |-> "ok", code |-> "", msg |-> 0, val |-> v]

NoData == [cached |-> FALSE, buf |-> << >>]

(* The sizes the completed stats of a file returned, and the contents its  *)
(* completed opens returned since the last empty().                        *)
NoSeen == [sizes |-> {}, contents |-> {}]

(* A public call: where it stands, what it was called with, the segment    *)
(* and the promise it waits for, how loadEntry settled, the provider       *)
(* invocation the original method made itself (own), the result given to   *)
(* the callback, what hist held for its path when it was called, and the   *)
(* entries it inserted again over an inode holding a size or a content.    *)
IdleOp == [pc |-> "idle", method |-> "stat", path |-> << >>, flag |-> "r",
           idx |-> 0, await |-> 0, loadResult |-> "none", loadErr |-> 0,
           failed |-> 0, result |-> NoResult, cbCount |-> 0,
           own |-> 0, seen |-> NoSeen, kept |-> {}]

InitFS ==
  /\ inodes = [q \in Paths |-> IF q = << >> THEN DIRECTORY ELSE "none"]
  /\ entriesLoaded = [q \in Paths |-> FALSE]
  /\ fsize = [q \in Paths |-> -1]
  /\ fileData = [q \in Paths |-> NoData]
  /\ statConfigured \in BOOLEAN
  /\ ops = [o \in Ops |-> IdleOp]
  /\ hist = [q \in Paths |-> NoSeen]

(* FileIndex.getInode(path): the inode at exactly this path, or null. *)
getInode(ino, path) == ino[path]

isDirInode(inode) == inode = DIRECTORY
isFileInode(inode) == inode = FILE

(* FileIndex.addPathFast: the new inode is attached under its parent       *)
(* unless the parent already has a child of that name.                     *)
addItem(old, new) == IF old = "none" THEN new ELSE old

(* Variant: the listing is dropped. *)
insertNothing(ino, d, entryList) == ino

(* loadEntry's forEach over the listing of directory d. *)
insertEntries(ino, d, entryList) ==
  [q \in Paths |->
     IF \E e \in entryList : q = Append(d, e.name)
     THEN addItem(ino[q],
                  (CHOOSE e \in entryList : q = Append(d, e.name)).type)
     ELSE ino[q]]

(* Variant: the new inode takes the place of the one already there. *)
insertFieldAlways(f, ino, d, entryList, fresh) ==
  [q \in Paths |->
     IF \E e \in entryList : q = Append(d, e.name) THEN fresh ELSE f[q]]

(* A field of the inodes (size, fileData, entriesLoaded) after the forEach *)
(* over the listing of d: each entry is a new inode, with the field as the *)
(* constructor sets it, and it is the inode addPathFast leaves at the path *)
(* whose field counts.                                                     *)
insertField(f, ino, d, entryList, fresh) ==
  [q \in Paths |->
     IF /\ \E e \in entryList : q = Append(d, e.name)
        /\ addItem(ino[q], "new") = "new"
     THEN fresh
     ELSE f[q]]

(* The entries of the listing of d whose inode was there already and holds *)
(* a size or a content.                                                    *)
heldEntries(d, entryList) ==
  {q \in {Append(d, e.name) : e \in entryList} :
      inodes[q] # "none" /\ (fsize[q] >= 0 \/ fileData[q].cached)}

(* inode.entriesLoaded = true *)
markLoaded(loaded, d) == [loaded EXCEPT ![d] = TRUE]

(* DirInode.getListing(): the names of the directory's children. *)
getListing(ino, d) ==
  {q[Len(q)] : q \in {r \in Paths : /\ Len(r) = Len(d) + 1
                                    /\ SubSeq(r, 1, Len(d)) = d
                                    /\ ino[r] # "none"}}

(* Variant: the last segment is never loaded. *)
loadBaseNever(method) == FALSE

(* pathList: '/' and the segments, without the last one unless loadBase.   *)
loadBase(method) == method = "readdir"

(* Variant: one segment too few. *)
NSegShort(method, path) ==
  IF loadBase(method) THEN Len(path) ELSE Len(path) - 1

(* pathList.length *)
NSeg(method, path) == IF loadBase(method) THEN Len(path) + 1 ELSE Len(path)

(* Variant: entriesLoaded is not looked at. *)
nextAlwaysFetch(path, n, index, ino, loaded) ==
  IF index >= n THEN [act |-> "resolve", at |-> index]
  ELSE IF ~isDirInode(getInode(ino, SubSeq(path, 1, index)))
       THEN [act |-> "resolve", at |-> index]
  ELSE [act |-> "fetch", at |-> index]

(* Variant: the walk does not stop at a segment that is not a directory. *)
RECURSIVE nextNoDirCheck(_, _, _, _, _)
nextNoDirCheck(path, n, index, ino, loaded) ==
  IF index >= n THEN [act |-> "resolve", at |-> index]
  ELSE IF loaded[SubSeq(path, 1, index)]
       THEN nextNoDirCheck(path, n, index + 1, ino, loaded)
  ELSE [act |-> "fetch", at |-> index]

(* next(index), as far as it runs without a fetch: where it resolves, or   *)
(* the segment it has to fetch.                                            *)
RECURSIVE next(_, _, _, _, _)
next(path, n, index, ino, loaded) ==
  IF index >= n THEN [act |-> "resolve", at |-> index]
  ELSE IF ~isDirInode(getInode(ino, SubSeq(path, 1, index)))
       THEN [act |-> "resolve", at |-> index]
  ELSE IF loaded[SubSeq(path, 1, index)]
       THEN next(path, n, index + 1, ino, loaded)
  ELSE [act |-> "fetch", at |-> index]

(* loadEntry from next(index) on, in the index (ino, loaded): it resolves, *)
(* or calls the wrapped readDirectory, which returns a promise or (thr)    *)
(* lets the provider's exception through, rejecting loadEntry.             *)
loadFrom(o, rec, index, ino, loaded, thr) ==
  LET w == next(rec.path, NSeg(rec.method, rec.path), index, ino, loaded)
      key == SubSeq(rec.path, 1, w.at)
  IN IF w.act = "resolve"
     THEN /\ ~thr
          /\ ops' = [ops EXCEPT ![o] =
                [rec EXCEPT !.pc = "loaded", !.idx = w.at, !.await = 0,
                            !.loadResult = "resolved"]]
          /\ UNCHANGED << calls, cache >>
     ELSE IF thr
     THEN /\ ~cacheHas("readDirectory", key)
          /\ calls' = wrapThrowCalls("readDirectory", key)
          /\ UNCHANGED cache
          /\ ops' = [ops EXCEPT ![o] =
                [rec EXCEPT !.pc = "loaded", !.idx = w.at, !.await = 0,
                            !.loadResult = "rejected",
                            !.loadErr = Len(calls) + 1,
                            !.failed = Len(calls) + 1]]
     ELSE /\ calls' = wrapCalls("readDirectory", key)
          /\ cache' = wrapCache("readDirectory", key)
          /\ ops' = [ops EXCEPT ![o] =
                [rec EXCEPT !.pc = "loading", !.idx = w.at,
                            !.await = wrapPromise("readDirectory", key)]]

(* A public stat, open or readdir is called: the wrapper of lines 335-342  *)
(* calls loadEntry, whose executor runs next(0) at once.                   *)
StartOp(o, method, path, flag, thr) ==
  /\ ops[o].pc = "idle"
  /\ \A o2 \in Ops : o2 < o => ops[o2].pc # "idle"
  /\ flag = "w" => method = "open"
  /\ loadFrom(o, [IdleOp EXCEPT !.method = method, !.path = path,
                                !.flag = flag, !.seen = hist[path]],
              0, inodes, entriesLoaded, thr)
  /\ UNCHANGED << inodes, entriesLoaded, fsize, fileData, statConfigured,
                  hist >>
  /\ UNCHANGED notFS

(* The reaction of loadEntry to the listing: insert, mark, next(index+1);  *)
(* or reject.                                                              *)
LoadContinue(o, thr) ==
  /\ ops[o].pc = "loading"
  /\ Observable(ops[o].await)
  /\ LET d == SubSeq(ops[o].path, 1, ops[o].idx)
     IN IF calls[ops[o].await].state = "resolved"
        THEN /\ inodes' = insertEntries(inodes, d, Tree(d))
             /\ fsize' = insertField(fsize, inodes, d, Tree(d), -1)
             /\ fileData' = insertField(fileData, inodes, d, Tree(d), NoData)
             /\ entriesLoaded' =
                   markLoaded(insertField(entriesLoaded, inodes, d, Tree(d),
                                          FALSE), d)
             /\ loadFrom(o, [ops[o] EXCEPT !.kept =
                                   @ \cup heldEntries(d, Tree(d))],
                         ops[o].idx + 1, inodes', entriesLoaded', thr)
        ELSE /\ ~thr
             /\ ops' = [ops EXCEPT ![o].pc = "loaded", ![o].await = 0,
                                   ![o].loadResult = "rejected",
                                   ![o].loadErr = ops[o].await,
                                   ![o].failed = ops[o].await]
             /\ UNCHANGED << inodes, entriesLoaded, fsize, fileData, calls,
                             cache >>
  /\ UNCHANGED << statConfigured, hist >>
  /\ UNCHANGED notFS

(* The callback of the operation is called with a result. *)
cb(o, rec, res) ==
  ops' = [ops EXCEPT ![o] = [rec EXCEPT !.pc = "done", !.await = 0,
                                        !.result = res,
                                        !.cbCount = rec.cbCount + 1]]

(* The operation calls a wrapped provider of its own (stat, readFile). *)
callProvider(o, kind, thr) ==
  IF thr
  THEN /\ ~cacheHas(kind, ops[o].path)
       /\ calls' = wrapThrowCalls(kind, ops[o].path)
       /\ UNCHANGED cache
       /\ ops' = [ops EXCEPT ![o].pc = "lost", ![o].await = 0,
                             ![o].own = Len(calls) + 1,
                             ![o].failed = IF ops[o].failed = 0
                                           THEN Len(calls) + 1
                                           ELSE ops[o].failed]
  ELSE /\ calls' = wrapCalls(kind, ops[o].path)
       /\ cache' = wrapCache(kind, ops[o].path)
       /\ ops' = [ops EXCEPT ![o].pc = "rawwait",
                             ![o].await = wrapPromise(kind, ops[o].path),
                             ![o].own = IF cacheHas(kind, ops[o].path)
                                        THEN 0 ELSE Len(calls) + 1]

(* Variant of stat: the provider is asked whatever size is stored. *)
statAlwaysAsks(o, thr) ==
  LET path == ops[o].path
      inode == getInode(inodes, path)
  IN IF inode = "none"
     THEN /\ ~thr
          /\ cb(o, ops[o], Err("ENOENT", 0))
          /\ UNCHANGED << calls, cache >>
     ELSE IF isFileInode(inode)
     THEN IF statConfigured
          THEN callProvider(o, "stat", thr)
          ELSE /\ ~thr
               /\ cb(o, ops[o], Ok(<< FILE, fsize[path] >>))
               /\ UNCHANGED << calls, cache >>
     ELSE /\ ~thr
          /\ cb(o, ops[o], Ok(<< DIRECTORY, 4096 >>))
          /\ UNCHANGED << calls, cache >>

(* Variant of stat: a missing inode is reported as invalid-argument. *)
statEnoentAsEinval(o, thr) ==
  LET path == ops[o].path
      inode == getInode(inodes, path)
  IN IF inode = "none"
     THEN /\ ~thr
          /\ cb(o, ops[o], Err("EINVAL", 0))
          /\ UNCHANGED << calls, cache >>
     ELSE IF isFileInode(inode)
     THEN IF fsize[path] < 0 /\ statConfigured
          THEN callProvider(o, "stat", thr)
          ELSE /\ ~thr
               /\ cb(o, ops[o], Ok(<< FILE, fsize[path] >>))
               /\ UNCHANGED << calls, cache >>
     ELSE /\ ~thr
          /\ cb(o, ops[o], Ok(<< DIRECTORY, 4096 >>))
          /\ UNCHANGED << calls, cache >>

(* DynamicRequest.stat (the original method). *)
stat(o, thr) ==
  LET path == ops[o].path
      inode == getInode(inodes, path)
  IN IF inode = "none"
     THEN /\ ~thr
          /\ cb(o, ops[o], Err("ENOENT", 0))
          /\ UNCHANGED << calls, cache >>
     ELSE IF isFileInode(inode)
     THEN IF fsize[path] < 0 /\ statConfigured
          THEN callProvider(o, "stat", thr)
          ELSE /\ ~thr
               /\ cb(o, ops[o], Ok(<< FILE, fsize[path] >>))
               /\ UNCHANGED << calls, cache >>
     ELSE /\ ~thr
          /\ cb(o, ops[o], Ok(<< DIRECTORY, 4096 >>))
          /\ UNCHANGED << calls, cache >>

(* FileFlag.isWriteable() *)
isWriteable(flag) == flag = "w"

(* Variant of open: the flags are not looked at. *)
openNoWriteCheck(o, thr) ==
  LET path == ops[o].path
      inode == getInode(inodes, path)
  IN IF inode = "none"
     THEN /\ ~thr
          /\ cb(o, ops[o], Err("ENOENT", 0))
          /\ UNCHANGED << calls, cache >>
     ELSE IF isFileInode(inode)
     THEN IF fileData[path].cached
          THEN /\ ~thr
               /\ cb(o, ops[o], Ok(fileData[path].buf))
               /\ UNCHANGED << calls, cache >>
          ELSE callProvider(o, "readFile", thr)
     ELSE /\ ~thr
          /\ cb(o, ops[o], Err("EISDIR", 0))
          /\ UNCHANGED << calls, cache >>

(* DynamicRequest.open (the original method). *)
open(o, thr) ==
  LET path == ops[o].path
      inode == getInode(inodes, path)
  IN IF isWriteable(ops[o].flag)
     THEN /\ ~thr
          /\ cb(o, ops[o], Err("EPERM", 0))
          /\ UNCHANGED << calls, cache >>
     ELSE IF inode = "none"
     THEN /\ ~thr
          /\ cb(o, ops[o], Err("ENOENT", 0))
          /\ UNCHANGED << calls, cache >>
     ELSE IF isFileInode(inode)
     THEN IF fileData[path].cached
          THEN /\ ~thr
               /\ cb(o, ops[o], Ok(fileData[path].buf))
               /\ UNCHANGED << calls, cache >>
          ELSE callProvider(o, "readFile", thr)
     ELSE /\ ~thr
          /\ cb(o, ops[o], Err("EISDIR", 0))
          /\ UNCHANGED << calls, cache >>

(* DynamicRequest.readdir (the original method). *)
readdir(o, thr) ==
  LET path == ops[o].path
      inode == getInode(inodes, path)
  IN /\ ~thr
     /\ UNCHANGED << calls, cache >>
     /\ IF inode = "none"
        THEN cb(o, ops[o], Err("ENOENT", 0))
        ELSE IF isDirInode(inode)
        THEN IF entriesLoaded[path]
             THEN cb(o, ops[o], Ok(getListing(inodes, path)))
             ELSE cb(o, ops[o], Err("EINVAL", -1))
        ELSE cb(o, ops[o], Err("ENOTDIR", 0))

(* hist after the step of operation o: a stat or an open of a file that   *)
(* completes with a result adds it.                                        *)
noteResult(o) ==
  LET r == ops'[o]
  IN hist' =
       IF r.pc = "done" /\ r.result.kind = "ok" /\ isFileInode(inodes[r.path])
       THEN IF r.method = "stat"
            THEN [hist EXCEPT ![r.path].sizes = @ \cup {r.result.val[2]}]
            ELSE [hist EXCEPT ![r.path].contents = @ \cup {r.result.val}]
       ELSE hist

(* onFinally of the load-before-call wrapper: loadEntry has settled,       *)
(* either way, and the original method runs.                               *)
RunRaw(o, thr) ==
  /\ ops[o].pc = "loaded"
  /\ CASE ops[o].method = "stat" -> stat(o, thr)
       [] ops[o].method = "open" -> open(o, thr)
       [] ops[o].method = "readdir" -> readdir(o, thr)
  /\ noteResult(o)
  /\ UNCHANGED << inodes, entriesLoaded, fsize, fileData, statConfigured >>
  /\ UNCHANGED notFS

(* The reactions of stat and open to their provider's promise. *)
RawContinue(o) ==
  /\ ops[o].pc = "rawwait"
  /\ Observable(ops[o].await)
  /\ LET c == calls[ops[o].await]
         path == ops[o].path
     IN IF c.state = "rejected"
        THEN /\ cb(o, [ops[o] EXCEPT !.failed = IF ops[o].failed = 0
                                                THEN ops[o].await
                                                ELSE ops[o].failed],
                   Err("EINVAL", ops[o].await))
             /\ UNCHANGED << fsize, fileData >>
        ELSE IF ops[o].method = "stat"
        THEN /\ fsize' = [fsize EXCEPT ![path] = c.value[1]]
             /\ cb(o, ops[o], Ok(<< FILE, c.value[1] >>))
             /\ UNCHANGED fileData
        ELSE /\ fsize' = [fsize EXCEPT ![path] = Len(c.value)]
             /\ fileData' = [fileData EXCEPT ![path] =
                                [cached |-> TRUE, buf |-> c.value]]
             /\ cb(o, ops[o], Ok(c.value))
  /\ noteResult(o)
  /\ UNCHANGED << inodes, entriesLoaded, statConfigured, calls, cache >>
  /\ UNCHANGED notFS

(* empty(): the cached content of every file is dropped.  The opens that  *)
(* completed before it no longer count for the calls in progress or to     *)
(* come.                                                                   *)
empty ==
  /\ \E q \in Paths : fileData[q].cached
  /\ fileData' = [q \in Paths |-> NoData]
  /\ hist' = [q \in Paths |-> [hist[q] EXCEPT !.contents = {}]]
  /\ ops' = [o \in Ops |->
               IF ops[o].pc \in {"loading", "loaded", "rawwait"}
               THEN [ops[o] EXCEPT !.seen.contents = {}]
               ELSE ops[o]]
  /\ UNCHANGED << inodes, entriesLoaded, fsize, statConfigured, calls, cache >>
  /\ UNCHANGED notFS

(* A completed call is forgotten by its caller: nothing of it is kept by   *)
(* the file system, and a later call takes its place (as long as fewer     *)
(* than MaxCalls provider invocations have been made).                     *)
Forget(o) ==
  /\ ops[o].pc \in {"done", "lost"}
  /\ Len(calls) < MaxCalls
  /\ ops' = [ops EXCEPT ![o] = IdleOp]
  /\ UNCHANGED << inodes, entriesLoaded, fsize, fileData, statConfigured,
                  hist, calls, cache >>
  /\ UNCHANGED notFS

NextFS ==
  \/ \E o \in Ops, m \in Methods, path \in OpPaths, flag \in Flags,
        thr \in BOOLEAN : StartOp(o, m, path, flag, thr)
  \/ \E o \in Ops, thr \in BOOLEAN : LoadContinue(o, thr)
  \/ \E o \in Ops, thr \in BOOLEAN : RunRaw(o, thr)
  \/ \E o \in Ops : RawContinue(o)
  \/ \E id \in 1 .. Len(calls), ok \in BOOLEAN :
        \E v \in ProviderValues(calls[id].kind) \cup { << >> } :
           ProviderSettle(id, ok, v)
  \/ \E id \in 1 .. Len(calls) : WrapFinally(id)
  \/ empty

(* Calls, one after another without end, on the one file /d/f. *)
FileMethods == {"open"}
FilePath == << "d", "f" >>

NextFile ==
  \/ \E o \in Ops, m \in FileMethods, thr \in BOOLEAN :
        StartOp(o, m, FilePath, "r", thr)
  \/ \E o \in Ops, thr \in BOOLEAN : LoadContinue(o, thr)
  \/ \E o \in Ops, thr \in BOOLEAN : RunRaw(o, thr)
  \/ \E o \in Ops : RawContinue(o)
  \/ \E id \in 1 .. Len(calls), ok \in BOOLEAN :
        \E v \in ProviderValues(calls[id].kind) \cup { << >> } :
           ProviderSettle(id, ok, v)
  \/ \E id \in 1 .. Len(calls) : WrapFinally(id)
  \/ empty
  \/ \E o \in Ops : Forget(o)

NextRW ==
  \/ \E p \in Parties : rLock(p)
  \/ \E p \in Parties : rUnlock(p)
  \/ \E p \in Parties : lock(p)
  \/ \E p \in Parties : unlock(p)
  \/ RunReaderCb
  \/ RunWriterCb
  \/ RunLockInner

NextRWMisuse ==
  \/ NextRW
  \/ \E p \in Parties : BadRUnlock(p)
  \/ \E p \in Parties : BadUnlock(p)


Init == InitRW /\ InitWrap /\ InitCallers /\ InitFS

SpecRW == Init /\ [][NextRW]_vars
SpecRWMisuse == Init /\ [][NextRWMisuse]_vars
SpecWrap == Init /\ [][NextWrap]_vars
SpecFS == Init /\ [][NextFS]_vars

(* The RWMutex where every callback handed to setImmediate runs and every  *)
(* party that was granted the lock releases it.                            *)
FairRW ==
  /\ WF_vars(RunReaderCb)
  /\ WF_vars(RunWriterCb)
  /\ WF_vars(RunLockInner)
  /\ \A p \in Parties : WF_vars(rUnlock(p)) /\ WF_vars(unlock(p))

SpecRWLive == Init /\ [][NextRW]_vars /\ FairRW

(* The file system constructed without opts.stat, opened over and over. *)
InitFile == Init /\ ~statConfigured

SpecFile == InitFile /\ [][NextFile]_vars

(***************************************************************************)
(* C1: under well-formed use no granted-and-unreleased reader coexists     *)
(* with a granted-and-unreleased writer, and at most one writer is         *)
(* granted-and-unreleased.                                                 *)
(***************************************************************************)
C1_MutualExclusion ==
  /\ ~(ActiveReaders # {} /\ ActiveWriters # {})
  /\ Cardinality(ActiveWriters) <= 1

(* A writer holds the lock while a reader and another writer wait for it. *)
C1_Witness ==
  /\ ActiveWriters # {}
  /\ \E p \in Parties : pstate[p] = "rwait"
  /\ \E p \in Parties : pstate[p] = "wmutex"


(***************************************************************************)
(* C4 (as claimed): every rUnlock by a party that holds no read            *)
(* acquisition, and every unlock by a party that holds no write            *)
(* acquisition, raises an error and leaves the lock unchanged.             *)
(***************************************************************************)
C4_Original ==
  misuse.op # "none" => (misuse.threw /\ ~misuse.changed)

(***************************************************************************)
(* C4 (amended): the misplaced rUnlock raises, leaving the lock unchanged, *)
(* exactly when no read acquisition is outstanding on the lock (no reader  *)
(* granted, queued or awaiting its wake-up), and the misplaced unlock      *)
(* raises exactly when no writer has claimed priority; otherwise the call  *)
(* is not detected and changes the counters.                               *)
(***************************************************************************)
C4_Amended ==
  /\ misuse.op = "rUnlock" =>
       /\ misuse.threw <=> (misuse.readersOut = 0)
       /\ misuse.changed <=> ~misuse.threw
  /\ misuse.op = "unlock" =>
       /\ misuse.threw <=> (misuse.writersOut = 0)
       /\ misuse.changed <=> ~misuse.threw

(* Both outcomes of a misplaced release have happened on either role. *)
C4_Witness ==
  /\ misuse.op = "rUnlock"
  /\ ~misuse.threw
  /\ misuse.readersOut >= 1
  /\ pstate[misuse.by] = "idle"

(***************************************************************************)
(* C9 (as claimed): a writer that finds k >= 1 readers active (granted and *)
(* unreleased) when it subtracts the bias becomes active after exactly     *)
(* those k readers have called rUnlock and not before; with k = 0 it is    *)
(* active at once; readers that call rLock after the claim are queued.     *)
(***************************************************************************)
C9_Original ==
  \A w \in Parties :
    /\ pstate[w] = "wclaimed" =>
         /\ claimActive # {}
         /\ ~(claimActive \subseteq releasedSince)
    /\ pstate[w] \in {"wwoken", "wheld"} =>
         /\ claimActive \subseteq releasedSince
         /\ releasedSince \subseteq claimActive
    /\ pstate[w] \in {"wclaimed", "wwoken", "wheld"} =>
         \A r \in Parties :
           pstate[r] \in {"rheld", "rwoken"} => r \in claimActive

(***************************************************************************)
(* C9 (amended): the k readers the writer waits for are those the counter  *)
(* holds at the claim: readers granted and unreleased, and readers already *)
(* dequeued by an earlier unlock whose wake-up callback has not run yet.   *)
(* The writer is woken exactly when those k readers have called rUnlock,   *)
(* at once when k = 0; readers that call rLock after the claim are queued  *)
(* and none of them releases before the writer is active.                  *)
(***************************************************************************)
C9_Amended ==
  \A w \in Parties :
    /\ pstate[w] = "wclaimed" =>
         /\ claimCounted # {}
         /\ ~(claimCounted \subseteq releasedSince)
         /\ readerWait = Cardinality(claimCounted \ releasedSince)
    /\ pstate[w] \in {"wwoken", "wheld"} =>
         /\ claimCounted \subseteq releasedSince
         /\ releasedSince \subseteq claimCounted
    /\ pstate[w] \in {"wclaimed", "wwoken", "wheld"} =>
         \A r \in Parties :
           pstate[r] \in {"rheld", "rwoken"} => r \in claimCounted

(* A writer that waited for two readers is active while a reader that     *)
(* arrived after its claim is still queued.                                *)
C9_Witness ==
  \E w \in Parties :
    /\ pstate[w] = "wheld"
    /\ Cardinality(claimCounted) >= 2
    /\ claimCounted \subseteq releasedSince
    /\ \E r \in Parties : pstate[r] = "rwait"


(***************************************************************************)
(* C2: calls with the same key made while the provider's result for that   *)
(* key is pending make no further provider invocation (at most one         *)
(* provider call per key is in flight), and every caller of one provider   *)
(* call observes that call's outcome: the same value or the same           *)
(* rejection.                                                              *)
(***************************************************************************)
C2_Coalesced ==
  /\ \A i, j \in 1 .. Len(calls) :
       (i # j /\ calls[i].kind = calls[j].kind /\ calls[i].key = calls[j].key)
          => ~(calls[i].state = "pending" /\ calls[j].state = "pending")
  /\ \A c \in Callers :
       wcaller[c].prevState = "pending" =>
          /\ wcaller[c].promise = wcaller[c].prev
          /\ wcaller[c].pc = "done" =>
               wcaller[c].outcome
                  = << calls[wcaller[c].prev].state, wcaller[c].prev >>
  /\ \A c1, c2 \in Callers :
       (/\ wcaller[c1].pc = "done" /\ wcaller[c2].pc = "done"
        /\ wcaller[c1].promise = wcaller[c2].promise)
          => wcaller[c1].outcome = wcaller[c2].outcome

(* Three callers of one key shared one provider call and all saw it        *)
(* rejected.                                                               *)
C2_Witness ==
  /\ Len(calls) = 1
  /\ \A c \in Callers :
       /\ wcaller[c].pc = "done"
       /\ wcaller[c].promise = 1
       /\ wcaller[c].outcome = << "rejected", 1 >>
  /\ Cardinality({c \in Callers : wcaller[c].prevState = "pending"})
        = NumCallers - 1

(***************************************************************************)
(* C3 (as claimed): once the provider call of a key has settled the        *)
(* pending table holds no entry for the key, and the next call with the    *)
(* key invokes the provider afresh.                                        *)
(***************************************************************************)
C3_Original ==
  /\ \A id \in 1 .. Len(calls) : Settled(id) => id \notin cache
  /\ \A c \in Callers :
       wcaller[c].prevState \in {"resolved", "rejected"} =>
          wcaller[c].promise > wcaller[c].prev

(***************************************************************************)
(* C3 (amended): once the provider call of a key has settled and the       *)
(* reaction finallyPromise attached to it (onFinally, which deletes the    *)
(* key) has run, the pending table holds no entry for that call, whether   *)
(* it succeeded or failed and however many callers attached, and the next  *)
(* call with the key invokes the provider afresh.                          *)
(***************************************************************************)
C3_Amended ==
  /\ \A id \in 1 .. Len(calls) : calls[id].finallyRan => id \notin cache
  /\ \A c \in Callers :
       wcaller[c].prevFinally => wcaller[c].promise > wcaller[c].prev

(* A call failed with two callers attached, its reaction ran, and the     *)
(* next call of the key made a second provider invocation.                 *)
C3_Witness ==
  /\ Len(calls) = 2
  /\ calls[1].state = "rejected"
  /\ calls[1].finallyRan
  /\ calls[2].key = calls[1].key
  /\ Cardinality({c \in Callers : wcaller[c].promise = 1}) = 2
  /\ \E c \in Callers : wcaller[c].promise = 2 /\ wcaller[c].prev = 1

(* The step is one of operation o itself (empty() only touches what an    *)
(* operation in progress has seen).                                        *)
Acts(o) == [ops'[o] EXCEPT !.seen = ops[o].seen] # ops[o]

(***************************************************************************)
(* The tree as the listing provider serves it: the kind of the entry at a  *)
(* path, "none" when an ancestor is missing or a file or the last segment  *)
(* is not listed.                                                          *)
(***************************************************************************)
RECURSIVE Served(_)
Served(path) ==
  IF path = << >> THEN DIRECTORY
  ELSE LET parent == SubSeq(path, 1, Len(path) - 1)
           name == path[Len(path)]
       IN IF Served(parent) # DIRECTORY THEN "none"
          ELSE IF \E e \in Tree(parent) : e.name = name
               THEN (CHOOSE e \in Tree(parent) : e.name = name).type
               ELSE "none"

(***************************************************************************)
(* C5: when loadEntry(p, false) has completed successfully, every proper   *)
(* ancestor of p is a directory of the index with entriesLoaded true, or   *)
(* lies at or below the first segment that is absent or not a directory.   *)
(***************************************************************************)
C5_AncestorsLoaded ==
  \A o \in Ops :
    (ops[o].loadResult = "resolved" /\ ~loadBase(ops[o].method)) =>
       \A k \in 0 .. Len(ops[o].path) - 1 :
          \/ /\ isDirInode(inodes[SubSeq(ops[o].path, 1, k)])
             /\ entriesLoaded[SubSeq(ops[o].path, 1, k)]
          \/ \E j \in 0 .. k :
                ~isDirInode(inodes[SubSeq(ops[o].path, 1, j)])

(* Both cases: a load of /d/f that went through two directories, and a     *)
(* load of /a/z that stopped at the file /a.                               *)
C5_Witness ==
  \E o1, o2 \in Ops :
    /\ ops[o1].method = "stat" /\ ops[o1].path = << "d", "f" >>
    /\ ops[o1].loadResult = "resolved"
    /\ ops[o2].method = "open" /\ ops[o2].path = << "a", "z" >>
    /\ ops[o2].loadResult = "resolved"

(***************************************************************************)
(* C6: a directory with entriesLoaded true has, for every entry the        *)
(* listing provider returned for its path, a child inode of that name and  *)
(* kind.                                                                   *)
(***************************************************************************)
C6_LoadedHasChildren ==
  \A d \in Paths :
    entriesLoaded[d] =>
       /\ isDirInode(inodes[d])
       /\ \A e \in Tree(d) : inodes[Append(d, e.name)] = e.type

(* /d is loaded while one operation waits for the listing of /d/e and      *)
(* another is still loading.                                               *)
C6_Witness ==
  /\ entriesLoaded[<< "d" >>]
  /\ \E o1, o2 \in Ops :
       /\ o1 # o2
       /\ ops[o1].pc = "loading" /\ ops[o1].idx = 2
       /\ ops[o2].pc = "loading"

(***************************************************************************)
(* C7: when the listing provider fails for a segment, loadEntry completes  *)
(* with that failure and attempts no later segment; the failure changes    *)
(* nothing in the index, so the failing directory is not marked by it and  *)
(* earlier directories keep their mark and children (no step ever removes  *)
(* a mark or an inode); and the listing provider is only ever invoked for  *)
(* a directory whose entriesLoaded is false.                               *)
(***************************************************************************)
C7_Step ==
  /\ \A o \in Ops :
       (/\ ops[o].pc = "loading"
        /\ Acts(o)
        /\ calls[ops[o].await].state = "rejected") =>
           /\ ops'[o].pc = "loaded"
           /\ ops'[o].loadResult = "rejected"
           /\ ops'[o].loadErr = ops[o].await
           /\ calls' = calls
           /\ inodes' = inodes
           /\ entriesLoaded' = entriesLoaded
  /\ \A o \in Ops :
       ops[o].loadResult = "rejected" =>
           /\ ops'[o].loadResult = "rejected"
           /\ ops'[o].loadErr = ops[o].loadErr
           /\ ops'[o].pc # "loading"
  /\ \A o \in Ops :
       (ops[o].loadResult = "none" /\ ops'[o].loadResult = "rejected") =>
           /\ inodes' = inodes \/ ops[o].pc = "loading"
           /\ calls'[ops'[o].loadErr].state \in {"rejected", "threw"}
           /\ calls'[ops'[o].loadErr].kind = "readDirectory"
           /\ calls'[ops'[o].loadErr].key
                 = SubSeq(ops'[o].path, 1, ops'[o].idx)
  /\ \A q \in Paths :
       /\ entriesLoaded[q] => entriesLoaded'[q]
       /\ inodes[q] # "none" => inodes'[q] = inodes[q]
  /\ (Len(calls') > Len(calls)
      /\ calls'[Len(calls')].kind = "readDirectory") =>
         ~entriesLoaded'[calls'[Len(calls')].key]

C7_NoRollback == [][C7_Step]_vars

(* A load of /d/f failed at /d after / was loaded; a later load of the     *)
(* same path succeeded with one invocation for / and two for /d.           *)
C7_Witness ==
  \E o1, o2 \in Ops :
    /\ ops[o1].path = << "d", "f" >> /\ ops[o2].path = << "d", "f" >>
    /\ ops[o1].loadResult = "rejected" /\ ops[o1].idx = 1
    /\ ops[o2].loadResult = "resolved"
    /\ entriesLoaded[<< >>] /\ entriesLoaded[<< "d" >>]
    /\ Len(calls) = 3
    /\ calls[1].key = << >> /\ calls[2].key = << "d" >>
    /\ calls[3].key = << "d" >>

(***************************************************************************)
(* C8: whenever a provider call made on behalf of a stat, open or readdir  *)
(* fails, the operation completes with an invalid-argument error carrying  *)
(* the message of that failure.                                            *)
(***************************************************************************)
C8_ProviderFailureIsEinval ==
  \A o \in Ops :
    (ops[o].pc = "done" /\ ops[o].failed # 0) =>
       ops[o].result = Err("EINVAL", ops[o].failed)

(***************************************************************************)
(* C10: a stat of a path the listing provider does not serve, no listing   *)
(* call having failed for it, completes with not-found and never with a    *)
(* Stats result.                                                           *)
(***************************************************************************)
C10_StatNotFound ==
  \A o \in Ops :
    (/\ ops[o].method = "stat"
     /\ Served(ops[o].path) = "none"
     /\ ops[o].failed = 0
     /\ ops[o].pc \in {"rawwait", "done", "lost"}) =>
        /\ ops[o].pc = "done"
        /\ ops[o].result = Err("ENOENT", 0)

(* The three ways of not being served: the last segment is not listed, an  *)
(* ancestor is a file, an ancestor is missing.                             *)
C10_Witness ==
  \E o1, o2 \in Ops :
    /\ ops[o1].method = "stat" /\ ops[o1].path = << "d", "x" >>
    /\ ops[o1].pc = "done" /\ ops[o1].failed = 0
    /\ entriesLoaded[<< "d" >>]
    /\ ops[o2].method = "stat" /\ ops[o2].path = << "a", "z" >>
    /\ ops[o2].pc = "done" /\ ops[o2].failed = 0

(***************************************************************************)
(* C11: an open whose flags request write access never asks the file-read  *)
(* provider and never ends without its callback; once the loader's walk    *)
(* has settled, either way, it completes, and it completes with            *)
(* permission-denied, never with a file, whatever the index holds at the   *)
(* path.                                                                   *)
(***************************************************************************)
C11_WriteOpenDenied ==
  \A o \in Ops :
    (ops[o].method = "open" /\ isWriteable(ops[o].flag)) =>
       /\ ops[o].pc \in {"idle", "loading", "loaded", "done"}
       /\ ops[o].pc = "done" =>
             /\ ops[o].result = Err("EPERM", 0)
             /\ ops[o].cbCount = 1

(* A write-open of the file /d/f whose walk succeeded, and a write-open of *)
(* the absent /x/y whose walk failed at the root's listing.                *)
C11_Witness ==
  \E o1, o2 \in Ops :
    /\ ops[o1].method = "open" /\ ops[o1].flag = "w"
    /\ ops[o1].path = << "d", "f" >> /\ ops[o1].pc = "done"
    /\ ops[o1].loadResult = "resolved" /\ inodes[<< "d", "f" >>] = FILE
    /\ ops[o2].method = "open" /\ ops[o2].flag = "w"
    /\ ops[o2].path = << "x", "y" >> /\ ops[o2].pc = "done"
    /\ ops[o2].loadResult = "rejected"

(***************************************************************************)
(* C12: a readdir of a directory the listing provider serves, no listing   *)
(* call having failed for it, completes with exactly the names the         *)
(* provider lists for that directory.                                      *)
(***************************************************************************)
C12_ReaddirExact ==
  \A o \in Ops :
    (/\ ops[o].method = "readdir"
     /\ Served(ops[o].path) = DIRECTORY
     /\ ops[o].failed = 0
     /\ ops[o].pc \in {"loaded", "done"}) =>
        /\ ops[o].loadResult = "resolved"
        /\ entriesLoaded[ops[o].path]
        /\ ops[o].pc = "done" =>
              /\ ops[o].result.kind = "ok"
              /\ ops[o].result.val = {e.name : e \in Tree(ops[o].path)}

(* A readdir of /d/e, two levels down, by the only operation there has     *)
(* been: it loaded /, /d and /d/e itself.                                  *)
C12_Witness ==
  \E o \in Ops :
    /\ ops[o].method = "readdir" /\ ops[o].path = << "d", "e" >>
    /\ ops[o].pc = "done" /\ ops[o].result.kind = "ok"
    /\ \A o2 \in Ops \ {o} : ops[o2].pc = "idle"
    /\ Len(calls) = 3

(***************************************************************************)
(* C13: an open of a file called after an open of the same path completed  *)
(* with a content, no empty() since, makes no invocation of the file-read  *)
(* provider and completes with that same content.                          *)
(***************************************************************************)
C13_OpenReusesContent ==
  \A o \in Ops :
    (/\ ops[o].method = "open"
     /\ ops[o].seen.contents # {}
     /\ ops[o].pc \in {"rawwait", "done", "lost"}) =>
        /\ ops[o].own = 0
        /\ ops[o].pc = "done"
        /\ ops[o].result.kind = "ok"
        /\ \A v \in ops[o].seen.contents : ops[o].result.val = v

(***************************************************************************)
(* C14 (as claimed): with a stat provider configured, a stat of a file     *)
(* that asks the provider returns the size it reports, whatever that size, *)
(* and every stat of the path called after a stat completed makes no       *)
(* stat-provider invocation and returns that same size.                    *)
(***************************************************************************)
C14_Original ==
  \A o \in Ops :
    (/\ ops[o].method = "stat"
     /\ statConfigured
     /\ isFileInode(inodes[ops[o].path])
     /\ ops[o].pc \in {"rawwait", "done", "lost"}) =>
        /\ (/\ ops[o].pc = "done"
            /\ ops[o].own # 0
            /\ calls[ops[o].own].state = "resolved") =>
               ops[o].result = Ok(<< FILE, calls[ops[o].own].value[1] >>)
        /\ ops[o].seen.sizes # {} =>
               /\ ops[o].own = 0
               /\ ops[o].pc = "done" =>
                     /\ ops[o].result.kind = "ok"
                     /\ \A z \in ops[o].seen.sizes :
                           ops[o].result.val[2] = z

(***************************************************************************)
(* C14 (amended): with a stat provider configured, a stat of a file that   *)
(* finds a non-negative size stored on the inode makes no stat-provider    *)
(* invocation and returns the stored size; one that finds a negative size  *)
(* asks the provider (or joins the call in flight), returns the size the   *)
(* provider reports and stores it, also when that size is -1, which the    *)
(* next stat then asks for again.                                          *)
(***************************************************************************)
C14_Step ==
  \A o \in Ops :
    (/\ ops[o].method = "stat"
     /\ statConfigured
     /\ isFileInode(inodes[ops[o].path])
     /\ Acts(o)) =>
        /\ (ops[o].pc = "loaded" /\ fsize[ops[o].path] >= 0) =>
              /\ calls' = calls
              /\ ops'[o].pc = "done"
              /\ ops'[o].result = Ok(<< FILE, fsize[ops[o].path] >>)
        /\ (ops[o].pc = "loaded" /\ fsize[ops[o].path] < 0) =>
              \/ /\ ops'[o].pc = "rawwait"
                 /\ calls'[ops'[o].await].kind = "stat"
                 /\ calls'[ops'[o].await].key = ops[o].path
                 /\ ops'[o].await \in cache'
              \/ /\ ops'[o].pc = "lost"
                 /\ calls'[Len(calls')].state = "threw"
        /\ (ops[o].pc = "rawwait"
            /\ calls[ops[o].await].state = "resolved") =>
              /\ ops'[o].pc = "done"
              /\ ops'[o].result
                    = Ok(<< FILE, calls[ops[o].await].value[1] >>)
              /\ fsize'[ops[o].path] = calls[ops[o].await].value[1]

C14_Amended == [][C14_Step]_vars

(* A stat of /d/f got 49 from the provider; a stat called after it         *)
(* completed returned 49 without a call of its own.                        *)
C14_Witness ==
  \E o1, o2 \in Ops :
    /\ ops[o1].method = "stat" /\ ops[o1].path = << "d", "f" >>
    /\ ops[o1].pc = "done" /\ ops[o1].own # 0
    /\ ops[o1].result = Ok(<< FILE, 49 >>)
    /\ ops[o2].method = "stat" /\ ops[o2].path = << "d", "f" >>
    /\ ops[o2].pc = "done" /\ ops[o2].own = 0
    /\ ops[o2].seen.sizes = {49}
    /\ ops[o2].result = Ok(<< FILE, 49 >>)
    /\ statConfigured

(***************************************************************************)
(* C15: no step removes or replaces an inode or takes back entriesLoaded,  *)
(* and a step of loadEntry that inserts a listing, also a listing that was *)
(* inserted before, leaves the size and the cached content of every inode  *)
(* already in the index as they were.                                      *)
(***************************************************************************)
C15_Step ==
  \A q \in Paths :
    inodes[q] # "none" =>
       /\ inodes'[q] = inodes[q]
       /\ entriesLoaded[q] => entriesLoaded'[q]
       /\ (\E o \in Ops : ops[o].pc = "loading" /\ Acts(o)) =>
             /\ fsize'[q] = fsize[q]
             /\ fileData'[q] = fileData[q]

C15_InodesStay == [][C15_Step]_vars

(* The listing of /d was inserted a second time when /d/f already held a   *)
(* content, which is still there.                                          *)
C15_Witness ==
  /\ \E o \in Ops : << "d", "f" >> \in ops[o].kept
  /\ fileData[<< "d", "f" >>].cached
  /\ fsize[<< "d", "f" >>] >= 0

(***************************************************************************)
(* C16: a loadEntry call asks for the listing of segment k only when every *)
(* earlier segment is a directory of the index with entriesLoaded true,    *)
(* segment k is a directory whose entriesLoaded is false, k lies after the *)
(* segment it asked for before, whose listing has resolved, and k is not   *)
(* the final segment unless loadBase; it resolves exactly at the first     *)
(* segment that is absent or not a directory, or after the last segment;   *)
(* and the listing provider is never invoked for a directory whose         *)
(* entriesLoaded is true.                                                  *)
(***************************************************************************)
C16_Step ==
  /\ \A o \in Ops :
       (Acts(o) /\ ops'[o].pc = "loading") =>
          LET k == ops'[o].idx
              path == ops'[o].path
              c == calls'[ops'[o].await]
          IN /\ ops[o].pc \in {"idle", "loading"}
             /\ c.kind = "readDirectory" /\ c.key = SubSeq(path, 1, k)
             /\ c.state = "pending" \/ ~c.finallyRan
             /\ k <= Len(path)
             /\ ops'[o].method # "readdir" => k < Len(path)
             /\ isDirInode(inodes'[SubSeq(path, 1, k)])
             /\ ~entriesLoaded'[SubSeq(path, 1, k)]
             /\ \A j \in 0 .. k - 1 :
                   /\ isDirInode(inodes'[SubSeq(path, 1, j)])
                   /\ entriesLoaded'[SubSeq(path, 1, j)]
             /\ ops[o].pc = "loading" =>
                   /\ k > ops[o].idx
                   /\ calls[ops[o].await].state = "resolved"
  /\ \A o \in Ops :
       (Acts(o) /\ ops'[o].loadResult = "resolved"
        /\ ops[o].loadResult = "none") =>
          LET m == ops'[o].idx
              path == ops'[o].path
          IN /\ \A j \in 0 .. m - 1 :
                   /\ isDirInode(inodes'[SubSeq(path, 1, j)])
                   /\ entriesLoaded'[SubSeq(path, 1, j)]
             /\ \/ m = (IF ops'[o].method = "readdir"
                        THEN Len(path) + 1 ELSE Len(path))
                \/ /\ m <= Len(path)
                   /\ ~isDirInode(inodes'[SubSeq(path, 1, m)])
             /\ calls' = calls
  /\ (Len(calls') > Len(calls)
      /\ calls'[Len(calls')].kind = "readDirectory") =>
         /\ Len(calls') = Len(calls) + 1
         /\ ~entriesLoaded'[calls'[Len(calls')].key]
         /\ ~entriesLoaded[calls'[Len(calls')].key]

C16_RootToLeaf == [][C16_Step]_vars

(* A readdir of /d/e whose walk fetched /, /d and /d/e in turn, and a walk *)
(* over /a/z that stopped, with success, at the file /a.                   *)
C16_Witness ==
  \E o1, o2 \in Ops :
    /\ ops[o1].method = "readdir" /\ ops[o1].path = << "d", "e" >>
    /\ ops[o1].loadResult = "resolved" /\ ops[o1].idx = 3
    /\ ops[o2].path = << "a", "z" >>
    /\ ops[o2].loadResult = "resolved" /\ ops[o2].idx = 1
    /\ Len(calls) >= 3

(***************************************************************************)
(* C17: no step of an open whose flags request write access invokes a      *)
(* provider or joins a provider call, none changes the inodes or the       *)
(* entriesLoaded flags of the index, and the open completes with           *)
(* permission-denied.                                                      *)
(***************************************************************************)
C17_Step ==
  \A o \in Ops :
    (/\ Acts(o)
     /\ ops'[o].method = "open"
     /\ isWriteable(ops'[o].flag)) =>
        /\ calls' = calls
        /\ ops'[o].await = 0
        /\ inodes' = inodes
        /\ entriesLoaded' = entriesLoaded
        /\ ops'[o].pc = "done" => ops'[o].result = Err("EPERM", 0)

C17_WriteOpenTouchesNothing == [][C17_Step]_vars

(***************************************************************************)
(* C18: under well-formed use, when every callback handed to setImmediate  *)
(* runs and every granted reader and writer releases, every rLock call is  *)
(* eventually granted and every lock call is eventually granted.           *)
(***************************************************************************)
C18_EventuallyGranted ==
  \A p \in Parties :
    /\ (pstate[p] \in {"rwait", "rwoken"}) ~> (pstate[p] = "rheld")
    /\ (pstate[p] \in {"wmutex", "wmwoken", "wclaimed", "wwoken"})
          ~> (pstate[p] = "wheld")

(* A writer's unlock has just woken a queued reader and handed the base    *)
(* mutex to a queued writer.                                               *)
C18_Witness ==
  \E p, q \in Parties :
    /\ pstate[p] = "rwoken"
    /\ pstate[q] = "wmwoken"
    /\ Len(immediates) = 2

(***************************************************************************)
(* C19: for every directory path, at most one invocation of the listing    *)
(* provider for that path has succeeded.                                   *)
(***************************************************************************)
C19_ListedOnce ==
  \A i, j \in 1 .. Len(calls) :
    (/\ calls[i].kind = "readDirectory" /\ calls[j].kind = "readDirectory"
     /\ calls[i].key = calls[j].key
     /\ calls[i].state = "resolved" /\ calls[j].state = "resolved") =>
        i = j

(***************************************************************************)
(* C20: a stat, open or readdir never invokes its callback twice, and once *)
(* nothing of the call is left to run (no provider call it waits for, no   *)
(* reaction of its own pending) the callback has been invoked once.        *)
(***************************************************************************)
C20_CallbackOnce ==
  \A o \in Ops :
    /\ ops[o].cbCount <= 1
    /\ ops[o].pc \in {"done", "lost"} => ops[o].cbCount = 1

=============================================================================
